---- MODULE Spec2Model ----
(***************************************************************************)
(* The xlrs wizard (src/src/main.rs, types.rs, utils.rs) as a state        *)
(* machine: one action per iteration of main's event loop.                 *)
(*                                                                         *)
(* Text is a sequence of one-character strings, so that trimming, case     *)
(* folding and substring search are computed as the code computes them.    *)
(* Indices are 0-based as in the Rust code; At(s, i) reads s[i].           *)
(* Option<T> is a sequence of length 0 (None) or 1 (Some).                 *)
(***************************************************************************)
EXTENDS Integers, Sequences, FiniteSets, TLC

VARIABLES
  xlsx,     \* main's workbook handle: the sheets the decoder reads
  app,      \* main's App: a record of the fields of types.rs' struct App
  exit      \* "running", "quit" (handle_key returned true) or "panic"

vars == <<xlsx, app, exit>>

----------------------------------------------------------------------------
\* Bounds of the model.

\* Largest rows_per_page a '+' key event may produce.
MaxRowsPerPage == 11
\* Largest selected_sheet index the wrapped Down may produce on an empty list.
MaxSheetIdx == 2

----------------------------------------------------------------------------
\* Option, indexing and sequence helpers.

None == <<>>
Some(v) == <<v>>
IsSome(o) == Len(o) = 1
Unwrap(o) == o[1]

At(s, i) == s[i + 1]
Skip(s, n) == SubSeq(s, n + 1, Len(s))
Take(s, n) == SubSeq(s, 1, IF n < Len(s) THEN n ELSE Len(s))
Range(s) == {s[i] : i \in 1..Len(s)}
Indices(s) == [i \in 1..Len(s) |-> i - 1]
Min(x, y) == IF x < y THEN x ELSE y
Max(x, y) == IF x > y THEN x ELSE y
Count(s, P(_)) == Len(SelectSeq(s, P))

----------------------------------------------------------------------------
\* Text.

IsWhitespace(c) == c \in {" ", "\t"}

RECURSIVE TrimStart(_)
TrimStart(s) ==
  IF s # <<>> /\ IsWhitespace(Head(s)) THEN TrimStart(Tail(s)) ELSE s

RECURSIVE TrimEnd(_)
TrimEnd(s) ==
  IF s # <<>> /\ IsWhitespace(s[Len(s)])
  THEN TrimEnd(SubSeq(s, 1, Len(s) - 1)) ELSE s

\* str::trim
Trim(s) == TrimEnd(TrimStart(s))

\* char::to_lowercase over the letters the workbooks and keys use
to_lowercase_char(c) ==
  CASE c = "A" -> "a" [] c = "B" -> "b" [] c = "C" -> "c" [] c = "D" -> "d"
    [] c = "M" -> "m" [] c = "N" -> "n" [] c = "Y" -> "y"
    [] OTHER -> c

to_lowercase(s) == [i \in 1..Len(s) |-> to_lowercase_char(s[i])]

\* str::contains
Contains(hay, needle) ==
  \E i \in 1..(Len(hay) + 1) :
    /\ i + Len(needle) - 1 <= Len(hay)
    /\ SubSeq(hay, i, i + Len(needle) - 1) = needle

\* unidecode: ASCII is kept, other letters are transliterated
unidecode_char(c) == CASE c = "é" -> "e" [] OTHER -> c

normalize_text(text) ==
  LET decoded == [i \in 1..Len(text) |-> unidecode_char(text[i])]
      replaced == [i \in 1..Len(text) |->
                     IF decoded[i] \in {" ", "-"} THEN "_" ELSE decoded[i]]
  IN  to_lowercase(replaced)

Digits == <<"0", "1", "2", "3", "4", "5", "6", "7", "8", "9">>
IsDigit(c) == c \in Range(Digits)
DigitValue(c) == CHOOSE d \in 0..9 : Digits[d + 1] = c

RECURSIVE DecimalValue(_)
DecimalValue(s) ==
  IF s = <<>> THEN 0
  ELSE 10 * DecimalValue(SubSeq(s, 1, Len(s) - 1)) + DigitValue(s[Len(s)])

\* str::parse::<usize>: an optional '+', then at least one decimal digit.
\* Err is ParseErr.  (No text of the model reaches usize::MAX.)
ParseErr == -1
parse_usize(s) ==
  LET digits == IF s # <<>> /\ Head(s) = "+" THEN Tail(s) ELSE s
  IN  IF digits # <<>> /\ \A i \in 1..Len(digits) : IsDigit(digits[i])
      THEN DecimalValue(digits) ELSE ParseErr

----------------------------------------------------------------------------
\* tui_input::Input: the text and the cursor offset into it.

Input(v) == [value |-> v, cursor |-> Len(v)]      \* Input::with_value
InputDefault == Input(<<>>)

\* A key event: the code, the character of a Char code, the CONTROL modifier.
Key(code, ch, ctrl) == [code |-> code, ch |-> ch, ctrl |-> ctrl]
IsChar(key, c) == key.code = "Char" /\ key.ch = c

\* EventHandler::handle_event of tui_input's crossterm backend
handle_event(inp, key) ==
  LET v == inp.value
      c == inp.cursor
  IN  CASE key.code = "Char" /\ ~key.ctrl ->
             [value |-> SubSeq(v, 1, c) \o <<key.ch>> \o Skip(v, c),
              cursor |-> c + 1]
        [] key.code = "Backspace" /\ ~key.ctrl ->
             IF c = 0 THEN inp
             ELSE [value |-> SubSeq(v, 1, c - 1) \o Skip(v, c),
                   cursor |-> c - 1]
        [] (key.code = "Left" /\ ~key.ctrl) \/ (IsChar(key, "b") /\ key.ctrl) ->
             [inp EXCEPT !.cursor = Max(c - 1, 0)]
        [] key.code = "Right" /\ ~key.ctrl ->
             [inp EXCEPT !.cursor = Min(c + 1, Len(v))]
        [] key.code = "Home" /\ ~key.ctrl -> [inp EXCEPT !.cursor = 0]
        [] key.code = "End" /\ ~key.ctrl -> [inp EXCEPT !.cursor = Len(v)]
        [] OTHER -> inp

----------------------------------------------------------------------------
\* The decoder boundary: a workbook is a sequence of sheets, each a name and
\* either a grid of text cells or a sheet the decoder cannot read.

Sheet(name, rows) == [name |-> name, readable |-> TRUE, rows |-> rows]
Unreadable(name) == [name |-> name, readable |-> FALSE, rows |-> <<>>]

\* Reader::sheet_names
sheet_names(x) == [i \in 1..Len(x) |-> x[i].name]

\* worksheet_range resolving a name the workbook does not hold to its first
\* sheet
worksheet_range_or_first(x, name) ==
  LET hits == SelectSeq(x, LAMBDA s : s.name = name)
      pick == IF hits # <<>> THEN hits ELSE x
  IN  IF pick # <<>> /\ pick[1].readable
      THEN [ok |-> TRUE, rows |-> pick[1].rows]
      ELSE [ok |-> FALSE, rows |-> <<>>]

\* Reader::worksheet_range: Err for a name the workbook does not hold and
\* for a sheet that is not a readable worksheet
worksheet_range(x, name) ==
  LET hits == SelectSeq(x, LAMBDA s : s.name = name)
  IN  IF hits # <<>> /\ hits[1].readable
      THEN [ok |-> TRUE, rows |-> hits[1].rows]
      ELSE [ok |-> FALSE, rows |-> <<>>]

\* A workbook of three sheets: A and B share the header name "id" at row 0
\* and nothing at row 1, B is narrower and shorter than A, C has no rows.
SheetA ==
  Sheet(<<"A">>,
        << << <<"i", "d", " ">>, <<"N", "a">> >>,
           << <<"1">>, <<"x">> >>,
           << <<"2">>, <<" ">> >> >>)

SheetB == Sheet(<<"B">>, << << <<"i", "d">> >>, << <<"9">> >> >>)

SheetC == Sheet(<<"C">>, <<>>)

\* A sheet of a header and eleven rows, two of them blank in column 1
SheetP ==
  Sheet(<<"P">>,
        << << <<"i", "d">>, <<"N", "a">> >>,
           << <<"1">>, <<"x">> >>,
           << <<"2">>, <<>> >>,
           << <<"3">>, <<" ">> >>,
           << <<"1">>, <<"x">> >>,
           << <<"5">>, <<"y">> >>,
           << <<"6">>, <<"z">> >>,
           << <<"7">>, <<"z">> >>,
           << <<"8">>, <<"z">> >>,
           << <<"9">>, <<"z">> >>,
           << <<"1">>, <<"z">> >>,
           << <<"2">>, <<"z">> >> >>)

\* A sheet whose rows repeat: rows 1 and 3 are equal, rows 2 and 4 are equal
\* in column 0, and row 2 is blank in column 1
SheetE ==
  Sheet(<<"E">>,
        << << <<"k">>, <<"v">> >>,
           << <<"1">>, <<"x">> >>,
           << <<"2">>, <<" ">> >>,
           << <<"1">>, <<"x">> >>,
           << <<"2">>, <<"y">> >> >>)

\* Three sheets that share header names at rows 0 and 1: at row 0, M shares
\* "a" and "b" with N and "a" with O; at row 1, "q" with N and "p", "q" with
\* O.  O ends at row 1.
SheetM ==
  Sheet(<<"M">>,
        << << <<"a">>, <<"b", " ">>, <<"c">> >>,
           << <<"p">>, <<"q">>, <<"r">> >>,
           << <<"1">>, <<"2">>, <<"3">> >> >>)

SheetN ==
  Sheet(<<"N">>,
        << << <<"b">>, <<"a">> >>,
           << <<"q">>, <<"z">> >>,
           << <<"4">>, <<"5">> >>,
           << <<"6">>, <<"7">> >> >>)

SheetO ==
  Sheet(<<"O">>,
        << << <<"a">>, <<"d">> >>,
           << <<"p">>, <<"q">> >> >>)

\* The workbooks main may open: one with no sheet, the three sheets, one
\* whose only sheet the decoder cannot read
Workbooks ==
  { <<>>,
    <<SheetA, SheetB, SheetC>>,
    <<Unreadable(<<"D">>)>> }

OriginalFilename == <<"w", ".", "x", "l", "s", "x">>

MergedLabel == <<"[", "M", "e", "r", "g", "e", "d", "]">>

----------------------------------------------------------------------------
\* types.rs: App and its methods.

Steps == {"SheetSelect", "RowTrim", "MergePrompt", "ColSelect", "Preview", "Export"}

ColumnConfigDefault == [prefix |-> InputDefault, postfix |-> InputDefault]

\* App::new
new(x, original_filename) ==
  [sheets |-> sheet_names(x), selected_sheet |-> Some(0), data |-> <<>>,
   first_row |-> 0, columns |-> <<>>, selected_column |-> 0,
   step |-> "SheetSelect", row_input |-> InputDefault, current_page |-> 0,
   rows_per_page |-> 10, sheet_search |-> InputDefault,
   matching_sheets |-> <<>>, column_configs |-> <<>>,
   export_focus_row |-> 0, export_edit |-> "FileName", custom_keys |-> <<>>,
   export_filename |-> Input(<<"e", "x", "p", "o", "r", "t">>),
   export_toast |-> None, export_toast_time |-> None, merge_info |-> None,
   deduplicate |-> TRUE, original_filename |-> original_filename]

\* handle_back sending ColSelect back to MergePrompt
handle_back_to_prompt(a) ==
  CASE a.step = "SheetSelect" -> "SheetSelect"
    [] a.step = "Export" -> "Preview"
    [] a.step = "Preview" -> "ColSelect"
    [] a.step = "ColSelect" -> "MergePrompt"
    [] a.step = "MergePrompt" -> "RowTrim"
    [] a.step = "RowTrim" -> "SheetSelect"

\* App::handle_back
handle_back(a) ==
  CASE a.step = "SheetSelect" -> "SheetSelect"
    [] a.step = "Export" -> "Preview"
    [] a.step = "Preview" -> "ColSelect"
    [] a.step \in {"ColSelect", "MergePrompt"} -> "RowTrim"
    [] a.step = "RowTrim" -> "SheetSelect"

IsShown(state) == state \in {"Original", "NonEmpty"}

\* App::visible_columns
visible_columns(a) ==
  SelectSeq(Indices(a.columns), LAMBDA i : IsShown(At(a.columns, i)))

\* App::is_row_visible indexes columns by every cell index of the row
is_row_visible_panics(a, row) == Len(row) > Len(a.columns)

\* App::is_row_visible
is_row_visible(a, row) ==
  \A i \in 1..Len(row) :
    IsShown(a.columns[i]) =>
      (a.columns[i] = "Original" \/ Trim(row[i]) # <<>>)

\* App::total_pages evaluates is_row_visible on every row from first_row on
total_pages_panics(a) ==
  \E r \in Range(Skip(a.data, a.first_row)) : is_row_visible_panics(a, r)

\* total_pages dividing without rounding up
total_pages_floor(a) ==
  LET visible_rows ==
        Count(Skip(a.data, a.first_row), LAMBDA row : is_row_visible(a, row))
  IN  visible_rows \div a.rows_per_page

\* App::total_pages
total_pages(a) ==
  LET visible_rows ==
        Count(Skip(a.data, a.first_row), LAMBDA row : is_row_visible(a, row))
  IN  (visible_rows + a.rows_per_page - 1) \div a.rows_per_page

\* Path::file_stem: the name up to its last '.', unless that '.' leads it
file_stem(name) ==
  LET dots == {i \in 2..Len(name) : name[i] = "."}
  IN  IF dots = {} THEN name
      ELSE SubSeq(name, 1, (CHOOSE i \in dots : \A j \in dots : j <= i) - 1)

\* App::get_default_filename indexes sheets by selected_sheet
get_default_filename_panics(a) ==
  /\ ~(a.sheets # <<>> /\ Head(a.sheets) = MergedLabel)
  /\ IsSome(a.selected_sheet)
  /\ Unwrap(a.selected_sheet) >= Len(a.sheets)

\* App::get_default_filename
get_default_filename(a) ==
  IF a.sheets # <<>> /\ Head(a.sheets) = MergedLabel
  THEN file_stem(a.original_filename)
  ELSE IF IsSome(a.selected_sheet)
       THEN normalize_text(At(a.sheets, Unwrap(a.selected_sheet)))
       ELSE <<"e", "x", "p", "o", "r", "t">>

----------------------------------------------------------------------------
\* main.rs: sheet loading, search, merge.

\* App::load_sheet indexes sheets by selected_sheet
load_sheet_panics(a) ==
  IsSome(a.selected_sheet) /\ Unwrap(a.selected_sheet) >= Len(a.sheets)

\* load_sheet returning true for a sheet of no rows
load_sheet_ok_when_empty(a, x) ==
  /\ IsSome(a.selected_sheet)
  /\ worksheet_range(x, At(a.sheets, Unwrap(a.selected_sheet))).ok

\* App::load_sheet, the value it returns
load_sheet_ok(a, x) ==
  /\ IsSome(a.selected_sheet)
  /\ LET range == worksheet_range(x, At(a.sheets, Unwrap(a.selected_sheet)))
     IN  range.ok /\ range.rows # <<>>

\* App::load_sheet, the state it leaves
load_sheet(a, x) ==
  IF ~IsSome(a.selected_sheet) THEN a
  ELSE
    LET range == worksheet_range(x, At(a.sheets, Unwrap(a.selected_sheet)))
    IN  IF ~range.ok THEN a
        ELSE IF range.rows = <<>> THEN [a EXCEPT !.data = <<>>]
        ELSE
          LET col_count == Len(range.rows[1])
              loaded ==
                [a EXCEPT
                   !.data = range.rows,
                   !.columns = [i \in 1..col_count |-> "Hidden"],
                   !.column_configs = [i \in 1..col_count |-> ColumnConfigDefault],
                   !.custom_keys = [i \in 1..col_count |-> InputDefault]]
          IN  [loaded EXCEPT
                 !.export_filename = Input(get_default_filename(loaded))]

\* App::update_sheet_search
update_sheet_search(a) ==
  LET search_lower == to_lowercase(a.sheet_search.value)
      matching ==
        SelectSeq(Indices(a.sheets),
                  LAMBDA i : Contains(to_lowercase(At(a.sheets, i)), search_lower))
  IN  [a EXCEPT
         !.matching_sheets = matching,
         !.selected_sheet =
            IF matching # <<>> THEN Some(Head(matching)) ELSE a.selected_sheet]

TrimAll(row) == [j \in 1..Len(row) |-> Trim(row[j])]

\* check_merge_options pushing a candidate whatever its mutual names
check_merge_options_unfiltered(a, x) ==
  IF a.first_row >= Len(a.data) THEN <<>>
  ELSE
    LET primary_header == At(a.data, a.first_row)
        mutual(i) ==
          LET range == worksheet_range(x, At(a.sheets, i))
          IN  IF ~range.ok \/ a.first_row >= Len(range.rows)
              THEN <<>>
              ELSE
                LET sheet_set == Range(TrimAll(At(range.rows, a.first_row)))
                IN  SelectSeq(TrimAll(primary_header),
                              LAMBDA s : s \in sheet_set)
        others == SelectSeq(Indices(a.sheets), LAMBDA i : Some(i) # a.selected_sheet)
    IN  [k \in 1..Len(others) |-> <<At(a.sheets, others[k]), mutual(others[k])>>]

\* App::check_merge_options: the (sheet name, mutual names) pairs
check_merge_options(a, x) ==
  IF a.first_row >= Len(a.data) THEN <<>>
  ELSE
    LET primary_header == At(a.data, a.first_row)
        mutual(i) ==
          LET range == worksheet_range(x, At(a.sheets, i))
          IN  IF Some(i) = a.selected_sheet \/ ~range.ok
                 \/ a.first_row >= Len(range.rows)
              THEN <<>>
              ELSE
                LET sheet_set == Range(TrimAll(At(range.rows, a.first_row)))
                IN  SelectSeq(TrimAll(primary_header),
                              LAMBDA s : s \in sheet_set)
        info == [k \in 1..Len(a.sheets) |-> <<a.sheets[k], mutual(k - 1)>>]
    IN  SelectSeq(info, LAMBDA e : e[2] # <<>>)

RECURSIVE Flatten(_)
Flatten(ss) == IF ss = <<>> THEN <<>> ELSE Head(ss) \o Flatten(Tail(ss))

\* common intersected with the first candidate's mutual names only
merge_common_first(common, info) ==
  IF info = <<>> THEN common
  ELSE {s \in common : s \in Range(Head(info)[2])}

\* perform_merge's common: a set of names intersected, in sequence, with
\* every candidate's mutual names
RECURSIVE merge_common(_, _)
merge_common(common, info) ==
  IF info = <<>> THEN common
  ELSE merge_common({s \in common : s \in Range(Head(info)[2])}, Tail(info))

\* perform_merge's new_header
merge_new_header(primary_header, info) ==
  LET common == merge_common(Range(TrimAll(primary_header)), info)
  IN  SelectSeq(primary_header, LAMBDA s : Trim(s) \in common)

\* merge_sheet taking the sheet's header row for a data row
merge_sheet_from_header(x, sheet_name, new_header, first) ==
  LET range == worksheet_range(x, sheet_name)
  IN  IF ~range.ok \/ Len(range.rows) <= first THEN <<>>
      ELSE
        LET header_row == At(range.rows, first)
            named(n) == {i \in 1..Len(header_row) : Trim(header_row[i]) = n}
            \* HashMap::collect keeps the last index of a repeated name
            header_map(n) == CHOOSE i \in named(n) : \A j \in named(n) : j <= i
            new_row(row) ==
              [c \in 1..Len(new_header) |->
                 LET n == Trim(new_header[c])
                 IN  IF named(n) # {} /\ header_map(n) <= Len(row)
                     THEN row[header_map(n)] ELSE <<>>]
            rest == Skip(range.rows, first)
        IN  [r \in 1..Len(rest) |-> new_row(rest[r])]

\* perform_merge's merge_sheet closure: the rows one sheet contributes
merge_sheet(x, sheet_name, new_header, first) ==
  LET range == worksheet_range(x, sheet_name)
  IN  IF ~range.ok \/ Len(range.rows) <= first THEN <<>>
      ELSE
        LET header_row == At(range.rows, first)
            named(n) == {i \in 1..Len(header_row) : Trim(header_row[i]) = n}
            \* HashMap::collect keeps the last index of a repeated name
            header_map(n) == CHOOSE i \in named(n) : \A j \in named(n) : j <= i
            new_row(row) ==
              [c \in 1..Len(new_header) |->
                 LET n == Trim(new_header[c])
                 IN  IF named(n) # {} /\ header_map(n) <= Len(row)
                     THEN row[header_map(n)] ELSE <<>>]
            rest == Skip(range.rows, first + 1)
        IN  [r \in 1..Len(rest) |-> new_row(rest[r])]

\* App::perform_merge unwraps selected_sheet and indexes sheets by it
perform_merge_panics(a) ==
  /\ a.first_row < Len(a.data)
  /\ (~IsSome(a.selected_sheet) \/ Unwrap(a.selected_sheet) >= Len(a.sheets))

\* perform_merge leaving first_row at the header row chosen
perform_merge_keeps_row(a, x) ==
  IF a.first_row >= Len(a.data) THEN a
  ELSE
    LET primary_header == At(a.data, a.first_row)
        info == IF IsSome(a.merge_info) THEN Unwrap(a.merge_info) ELSE <<>>
        new_header == merge_new_header(primary_header, info)
        names == <<At(a.sheets, Unwrap(a.selected_sheet))>>
                   \o [k \in 1..Len(info) |-> info[k][1]]
        merged_data ==
          <<new_header>>
            \o Flatten([k \in 1..Len(names) |->
                          merge_sheet(x, names[k], new_header, a.first_row)])
        merged ==
          [a EXCEPT !.data = merged_data, !.sheets = <<MergedLabel>>,
                    !.selected_sheet = Some(0)]
    IN  [merged EXCEPT !.export_filename = Input(get_default_filename(merged))]

\* App::perform_merge
perform_merge(a, x) ==
  IF a.first_row >= Len(a.data) THEN a
  ELSE
    LET primary_header == At(a.data, a.first_row)
        info == IF IsSome(a.merge_info) THEN Unwrap(a.merge_info) ELSE <<>>
        new_header == merge_new_header(primary_header, info)
        names == <<At(a.sheets, Unwrap(a.selected_sheet))>>
                   \o [k \in 1..Len(info) |-> info[k][1]]
        merged_data ==
          <<new_header>>
            \o Flatten([k \in 1..Len(names) |->
                          merge_sheet(x, names[k], new_header, a.first_row)])
        merged ==
          [a EXCEPT !.data = merged_data, !.sheets = <<MergedLabel>>,
                    !.selected_sheet = Some(0), !.first_row = 0]
    IN  [merged EXCEPT !.export_filename = Input(get_default_filename(merged))]

----------------------------------------------------------------------------
\* main.rs and utils.rs: the per-step key handlers.

\* utils::navigate_index takes a remainder by len
navigate_index_panics(len, key) == key.code \in {"Up", "Down"} /\ len = 0

\* utils::navigate_index
navigate_index(cur, len, key) ==
  CASE key.code = "Down" -> (cur + 1) % len
    [] key.code = "Up" -> (cur + len - 1) % len
    [] OTHER -> cur

\* handle_sheet_select: sheets.len() - 1 underflows on an empty list, which
\* panics in a build with overflow checks and wraps in one without
handle_sheet_select_panics(a, key, env) ==
  \/ /\ key.code = "Down"
     /\ IsSome(a.selected_sheet) /\ a.sheets = <<>> /\ env.overflow_checks
  \/ key.code = "Enter" /\ load_sheet_panics(a)

\* App::handle_sheet_select
handle_sheet_select(a, key, x) ==
  CASE key.code = "Up" ->
         [a EXCEPT !.selected_sheet =
            IF IsSome(a.selected_sheet)
            THEN Some(Max(Unwrap(a.selected_sheet) - 1, 0)) ELSE Some(0)]
    [] key.code = "Down" ->
         [a EXCEPT !.selected_sheet =
            IF IsSome(a.selected_sheet)
            THEN IF a.sheets = <<>>
                 THEN Some(Unwrap(a.selected_sheet) + 1)
                 ELSE Some(Min(Unwrap(a.selected_sheet) + 1, Len(a.sheets) - 1))
            ELSE Some(0)]
    [] key.code = "Enter" ->
         IF load_sheet_ok(a, x)
         THEN [load_sheet(a, x) EXCEPT !.step = "RowTrim"]
         ELSE load_sheet(a, x)
    [] OTHER ->
         update_sheet_search(
           [a EXCEPT !.sheet_search = handle_event(a.sheet_search, key)])

\* handle_row_trim accepting every number typed
row_accepted_unchecked(a) ==
  parse_usize(Trim(a.row_input.value)) # ParseErr

\* handle_row_trim accepting the row count itself
row_accepted_inclusive(a) ==
  LET row == parse_usize(Trim(a.row_input.value))
  IN  row # ParseErr /\ row <= Len(a.data)

\* handle_row_trim's test of the row number typed
row_accepted(a) ==
  LET row == parse_usize(Trim(a.row_input.value))
  IN  row # ParseErr /\ row < Len(a.data)

\* App::handle_row_trim
handle_row_trim(a, key, x) ==
  IF key.code = "Enter"
  THEN IF row_accepted(a)
       THEN LET trimmed ==
                  [a EXCEPT !.first_row = parse_usize(Trim(a.row_input.value))]
                merge_info_ == check_merge_options(trimmed, x)
            IN  IF merge_info_ # <<>>
                THEN [trimmed EXCEPT !.merge_info = Some(merge_info_),
                                     !.step = "MergePrompt"]
                ELSE [trimmed EXCEPT !.step = "ColSelect"]
       ELSE a
  ELSE [a EXCEPT !.row_input = handle_event(a.row_input, key)]

handle_merge_prompt_panics(a, key) ==
  (IsChar(key, "y") \/ IsChar(key, "Y")) /\ perform_merge_panics(a)

\* handle_merge_prompt dismissing the prompt on any key that is not yes
handle_merge_prompt_any(a, key, x) ==
  CASE IsChar(key, "y") \/ IsChar(key, "Y") ->
         [perform_merge(a, x) EXCEPT !.merge_info = None, !.step = "ColSelect"]
    [] OTHER -> [a EXCEPT !.merge_info = None, !.step = "ColSelect"]

\* App::handle_merge_prompt
handle_merge_prompt(a, key, x) ==
  CASE IsChar(key, "y") \/ IsChar(key, "Y") ->
         [perform_merge(a, x) EXCEPT !.merge_info = None, !.step = "ColSelect"]
    [] IsChar(key, "n") \/ IsChar(key, "N") ->
         [a EXCEPT !.merge_info = None, !.step = "ColSelect"]
    [] OTHER -> a

\* App::toggle_col_select
toggle_col_select(a) ==
  IF a.selected_column < Len(a.columns)
  THEN [a EXCEPT !.columns[a.selected_column + 1] =
          IF At(a.columns, a.selected_column) = "Hidden"
          THEN "NonEmpty" ELSE "Hidden"]
  ELSE a

\* toggle_all_col showing every column as soon as one is hidden
toggle_all_col_any(a) ==
  LET any_hidden == \E i \in 1..Len(a.columns) : a.columns[i] = "Hidden"
  IN  [a EXCEPT !.columns =
         [i \in 1..Len(a.columns) |->
            IF any_hidden THEN "NonEmpty" ELSE "Hidden"]]

\* App::toggle_all_col
toggle_all_col(a) ==
  LET all_hidden == \A i \in 1..Len(a.columns) : a.columns[i] = "Hidden"
  IN  [a EXCEPT !.columns =
         [i \in 1..Len(a.columns) |->
            IF all_hidden THEN "NonEmpty" ELSE "Hidden"]]

\* handle_col_select whose Enter skips Preview
handle_col_select_skips(a, key) ==
  CASE IsChar(key, " ") -> toggle_col_select(a)
    [] IsChar(key, "a") -> toggle_all_col(a)
    [] key.code \in {"Up", "Down"} ->
         [a EXCEPT !.selected_column =
            navigate_index(a.selected_column, Len(a.columns), key)]
    [] key.code = "Enter" -> [a EXCEPT !.selected_column = 0, !.step = "Export"]
    [] OTHER -> a

handle_col_select_panics(a, key) == navigate_index_panics(Len(a.columns), key)

\* App::handle_col_select
handle_col_select(a, key) ==
  CASE IsChar(key, " ") -> toggle_col_select(a)
    [] IsChar(key, "a") -> toggle_all_col(a)
    [] key.code \in {"Up", "Down"} ->
         [a EXCEPT !.selected_column =
            navigate_index(a.selected_column, Len(a.columns), key)]
    [] key.code = "Enter" -> [a EXCEPT !.selected_column = 0, !.step = "Preview"]
    [] OTHER -> a

\* App::next_page
next_page(a) ==
  IF a.current_page + 1 < total_pages(a)
  THEN [a EXCEPT !.current_page = a.current_page + 1] ELSE a

\* App::prev_page
prev_page(a) ==
  IF a.current_page > 0
  THEN [a EXCEPT !.current_page = a.current_page - 1] ELSE a

\* toggle_col_filter hiding a column whose filter is already off
toggle_col_filter_hides(a) ==
  LET visible == visible_columns(a)
  IN  IF a.selected_column < Len(visible)
      THEN LET col_idx == At(visible, a.selected_column)
           IN  [a EXCEPT !.columns[col_idx + 1] =
                  IF At(a.columns, col_idx) = "Original"
                  THEN "Hidden" ELSE "Original"]
      ELSE a

\* App::toggle_col_filter
toggle_col_filter(a) ==
  LET visible == visible_columns(a)
  IN  IF a.selected_column < Len(visible)
      THEN LET col_idx == At(visible, a.selected_column)
           IN  [a EXCEPT !.columns[col_idx + 1] =
                  IF At(a.columns, col_idx) = "Original"
                  THEN "NonEmpty" ELSE "Original"]
      ELSE a

handle_preview_panics(a, key) ==
  key.code \in {"Right", "End"} /\ total_pages_panics(a)

\* App::handle_preview
handle_preview(a, key) ==
  CASE key.code = "Left" -> prev_page(a)
    [] key.code = "Right" -> next_page(a)
    [] IsChar(key, " ") -> toggle_col_filter(a)
    [] IsChar(key, "+") ->
         [a EXCEPT !.rows_per_page = a.rows_per_page + 1, !.current_page = 0]
    [] IsChar(key, "-") ->
         [a EXCEPT !.rows_per_page = Max(Max(a.rows_per_page - 1, 0), 5),
                   !.current_page = 0]
    [] key.code = "Home" -> [a EXCEPT !.current_page = 0]
    [] key.code = "End" ->
         [a EXCEPT !.current_page = Max(total_pages(a) - 1, 0)]
    [] key.code \in {"Up", "Down"} ->
         LET visible == visible_columns(a)
         IN  IF visible # <<>>
             THEN [a EXCEPT !.selected_column =
                     navigate_index(a.selected_column, Len(visible), key)]
             ELSE a
    [] key.code = "Enter" ->
         [a EXCEPT !.step = "Export", !.export_focus_row = 0,
                   !.export_edit = "FileName"]
    [] OTHER -> a

----------------------------------------------------------------------------
\* Export: types.rs create_json_records, main.rs export_to_json and
\* handle_export.  A record (serde_json::Map) is a function from its keys to
\* its values; inserting a key a second time replaces the value.

\* The cells of one row that create_json_records projects: the visible
\* columns the row has a cell for (row.get(col_idx)?)
projected_columns(a, row) ==
  SelectSeq(visible_columns(a), LAMBDA col_idx : col_idx < Len(row))

\* create_json_records' field_name for a column, normalised
field_key(a, col_idx) ==
  normalize_text(IF At(a.custom_keys, col_idx).value = <<>>
                 THEN At(At(a.data, a.first_row), col_idx)
                 ELSE At(a.custom_keys, col_idx).value)

\* create_json_records' value for a cell: prefix, cell, postfix
field_value(a, col_idx, row) ==
  At(a.column_configs, col_idx).prefix.value
    \o At(row, col_idx)
    \o At(a.column_configs, col_idx).postfix.value

\* The record of one row
json_record(a, row) ==
  LET cols == projected_columns(a, row)
      keys == {field_key(a, cols[i]) : i \in 1..Len(cols)}
      last(k) == CHOOSE i \in 1..Len(cols) :
                   /\ field_key(a, cols[i]) = k
                   /\ \A j \in 1..Len(cols) : field_key(a, cols[j]) = k => j <= i
  IN  [k \in keys |-> field_value(a, cols[last(k)], row)]

\* create_json_records projecting the header row too
exported_rows_from_header(a) ==
  SelectSeq(Skip(a.data, a.first_row), LAMBDA row : is_row_visible(a, row))

\* The rows create_json_records projects
exported_rows(a) ==
  SelectSeq(Skip(a.data, a.first_row + 1), LAMBDA row : is_row_visible(a, row))

\* create_json_records indexes columns, column_configs, custom_keys and the
\* header row
create_json_records_panics(a) ==
  \/ \E r \in Range(Skip(a.data, a.first_row + 1)) : is_row_visible_panics(a, r)
  \/ \E r \in Range(exported_rows(a)) :
       \E col_idx \in Range(projected_columns(a, r)) :
         \/ col_idx >= Len(a.column_configs)
         \/ col_idx >= Len(a.custom_keys)
         \/ /\ At(a.custom_keys, col_idx).value = <<>>
            /\ col_idx >= Len(At(a.data, a.first_row))

\* App::create_json_records
create_json_records(a) ==
  LET rows == exported_rows(a)
  IN  [i \in 1..Len(rows) |-> json_record(a, rows[i])]

\* A filter that drops a record only when it equals the one before it
deduplicated_adjacent(records) ==
  LET keep == SelectSeq([i \in 1..Len(records) |-> i],
                        LAMBDA i : i = 1 \/ records[i - 1] # records[i])
  IN  [k \in 1..Len(keep) |-> records[keep[k]]]

\* export_to_json's filter on a HashSet of the serialised records: the first
\* occurrence of each record is kept
RECURSIVE deduplicated(_)
deduplicated(records) ==
  IF records = <<>> THEN <<>>
  ELSE LET init == deduplicated(SubSeq(records, 1, Len(records) - 1))
           last == records[Len(records)]
       IN  IF last \in Range(init) THEN init ELSE Append(init, last)

\* export_to_json's filename
export_name(a) ==
  IF a.export_filename.value # <<>>
  THEN normalize_text(a.export_filename.value)
  ELSE get_default_filename(a)

\* The array export_to_json serialises
export_array(a) ==
  IF a.deduplicate THEN deduplicated(create_json_records(a))
  ELSE create_json_records(a)

export_to_json_panics(a, env) ==
  \/ a.export_filename.value = <<>> /\ get_default_filename_panics(a)
  \/ env.file_created /\ create_json_records_panics(a)

\* export_to_json setting the toast once the file is created, written or not
export_to_json_unwritten(a, env) ==
  IF env.file_created
  THEN [a EXCEPT
          !.export_toast = Some(<<"Exported to ">> \o <<".json successfully">>),
          !.export_toast_time = Some(0)]
  ELSE a

\* App::export_to_json; env says whether File::create and writeln! succeed.
\* An Instant is held as the whole seconds elapsed since it was taken.
export_to_json(a, env) ==
  IF env.file_created /\ env.file_written
  THEN [a EXCEPT
          !.export_toast =
             Some(<<"Exported to ">> \o export_name(a)
                    \o <<".json successfully">>),
          !.export_toast_time = Some(0)]
  ELSE a

\* App::get_export_target: the column whose fields Export's focus row edits
export_target_column(a) ==
  IF a.export_focus_row >= 1
     /\ a.export_focus_row - 1 < Len(visible_columns(a))
     /\ a.export_edit \in {"KeyStr", "Prefix", "Postfix"}
  THEN Some(At(visible_columns(a), a.export_focus_row - 1))
  ELSE None

handle_export_panics(a, key, env) ==
  \/ key.code = "Enter" /\ export_to_json_panics(a, env)
  \/ /\ key.code \notin {"Up", "Down", "Tab", "Enter"}
     /\ a.export_focus_row # 0
     /\ IsSome(export_target_column(a))
     /\ LET col_idx == Unwrap(export_target_column(a))
        IN  IF a.export_edit = "KeyStr" THEN col_idx >= Len(a.custom_keys)
            ELSE col_idx >= Len(a.column_configs)

\* App::handle_export
handle_export(a, key, env) ==
  CASE key.code \in {"Up", "Down"} ->
         LET total_items == Len(visible_columns(a)) + 2
             delta == IF key.code = "Down" THEN 1 ELSE total_items - 1
             focus == (a.export_focus_row + delta) % total_items
         IN  [a EXCEPT !.export_focus_row = focus,
                       !.export_edit = IF focus = 0 THEN "FileName" ELSE "KeyStr"]
    [] key.code = "Tab" ->
         [a EXCEPT !.export_edit =
            IF a.export_focus_row = 0
            THEN IF a.export_edit = "FileName" THEN "Deduplicate" ELSE "FileName"
            ELSE CASE a.export_edit = "KeyStr" -> "Prefix"
                   [] a.export_edit = "Prefix" -> "Postfix"
                   [] OTHER -> "KeyStr"]
    [] key.code = "Enter" -> export_to_json(a, env)
    [] OTHER ->
         IF a.export_focus_row = 0
         THEN CASE a.export_edit = "FileName" ->
                     [a EXCEPT !.export_filename =
                        handle_event(a.export_filename, key)]
                [] a.export_edit = "Deduplicate" /\ IsChar(key, " ") ->
                     [a EXCEPT !.deduplicate = ~a.deduplicate]
                [] OTHER -> a
         ELSE IF IsSome(export_target_column(a))
              THEN LET c == Unwrap(export_target_column(a)) + 1
                   IN  CASE a.export_edit = "KeyStr" ->
                              [a EXCEPT !.custom_keys[c] =
                                 handle_event(a.custom_keys[c], key)]
                         [] a.export_edit = "Prefix" ->
                              [a EXCEPT !.column_configs[c].prefix =
                                 handle_event(a.column_configs[c].prefix, key)]
                         [] a.export_edit = "Postfix" ->
                              [a EXCEPT !.column_configs[c].postfix =
                                 handle_event(a.column_configs[c].postfix, key)]
              ELSE a

----------------------------------------------------------------------------
\* main.rs: handle_key, ui and the event loop.

is_quit(key) == key.ctrl /\ IsChar(key, "q")
is_back(key) == key.ctrl /\ IsChar(key, "b")

\* handle_key's step after its CONTROL match, before the dispatch
step_after_meta(a, key) == IF is_back(key) THEN handle_back(a) ELSE a.step

\* The step handler handle_key dispatches to, by the step it finds
dispatch(a, key, x, env) ==
  CASE a.step = "SheetSelect" -> handle_sheet_select(a, key, x)
    [] a.step = "RowTrim" -> handle_row_trim(a, key, x)
    [] a.step = "MergePrompt" -> handle_merge_prompt(a, key, x)
    [] a.step = "ColSelect" -> handle_col_select(a, key)
    [] a.step = "Preview" -> handle_preview(a, key)
    [] a.step = "Export" -> handle_export(a, key, env)

dispatch_panics(a, key, env) ==
  CASE a.step = "SheetSelect" -> handle_sheet_select_panics(a, key, env)
    [] a.step = "RowTrim" -> FALSE
    [] a.step = "MergePrompt" -> handle_merge_prompt_panics(a, key)
    [] a.step = "ColSelect" -> handle_col_select_panics(a, key)
    [] a.step = "Preview" -> handle_preview_panics(a, key)
    [] a.step = "Export" -> handle_export_panics(a, key, env)

\* App::handle_key, the value it returns: TRUE ends main's loop
handle_key_returns(a, key) == is_quit(key)

handle_key_panics(a, key, env) ==
  ~is_quit(key)
    /\ dispatch_panics([a EXCEPT !.step = step_after_meta(a, key)], key, env)

\* App::handle_key, the state it leaves
handle_key(a, key, x, env) ==
  IF is_quit(key) THEN a
  ELSE dispatch([a EXCEPT !.step = step_after_meta(a, key)], key, x, env)

\* The seconds a toast is shown
ToastSecs == 3

\* ui's indexing: matching_sheets into sheets, the header row's cells into
\* columns, and in Export the visible columns into the header row and the
\* per-column configuration
ui_panics(a) ==
  CASE a.step = "SheetSelect" ->
         /\ a.sheet_search.value # <<>>
         /\ \E i \in Range(a.matching_sheets) : i >= Len(a.sheets)
    [] a.step = "ColSelect" ->
         a.first_row < Len(a.data)
           /\ Len(At(a.data, a.first_row)) > Len(a.columns)
    [] a.step = "Preview" -> total_pages_panics(a)
    [] a.step = "Export" ->
         \E col_idx \in Range(visible_columns(a)) :
           \/ a.first_row >= Len(a.data)
           \/ col_idx >= Len(At(a.data, a.first_row))
           \/ col_idx >= Len(a.column_configs)
           \/ col_idx >= Len(a.custom_keys)
    [] OTHER -> FALSE

\* ui, the state it leaves: an elapsed toast is cleared
ui(a) ==
  IF IsSome(a.export_toast_time) /\ Unwrap(a.export_toast_time) >= ToastSecs
  THEN [a EXCEPT !.export_toast = None, !.export_toast_time = None]
  ELSE a

\* Time passing between two iterations of the loop
elapse(a, secs) ==
  IF IsSome(a.export_toast_time)
  THEN [a EXCEPT !.export_toast_time = Some(Unwrap(a.export_toast_time) + secs)]
  ELSE a

----------------------------------------------------------------------------
\* The inputs of the model.

SpecialCodes ==
  {"Up", "Down", "Left", "Right", "Enter", "Tab", "Home", "End", "Backspace"}
Chars == {" ", "a", "y", "Y", "n", "N", "+", "-", "0", "1", "2", "b", "q", "k"}
ControlChars == {"b", "q", "y"}

Keys ==
  {Key(c, "", FALSE) : c \in SpecialCodes}
    \cup {Key("Char", c, FALSE) : c \in Chars}
    \cup {Key("Char", c, TRUE) : c \in ControlChars}

\* What the environment decides in one iteration: the build's overflow
\* checks, the outcome of File::create and of writeln!, the seconds since the
\* last iteration.  Only the choices the iteration reads are drawn.
Envs(a, key) ==
  [overflow_checks : IF a.step = "SheetSelect" /\ key.code = "Down"
                     THEN BOOLEAN ELSE {TRUE},
   file_created : IF a.step = "Export" /\ key.code = "Enter"
                  THEN BOOLEAN ELSE {TRUE},
   file_written : IF a.step = "Export" /\ key.code = "Enter"
                  THEN BOOLEAN ELSE {TRUE},
   elapsed : IF IsSome(a.export_toast_time) THEN {0, ToastSecs} ELSE {0}]

\* The texts the model's user types: a key event that leaves another text in
\* the field is not drawn (one that shortens the text always is)
SearchTexts == {<<"b">>}
RowTexts == {<<"0">>, <<"1">>, <<"2">>, <<"q">>}
ExportTexts == {}

Typed(before, after, texts) ==
  \/ after.value = before.value
  \/ Len(after.value) < Len(before.value)
  \/ after.value \in texts

ExportFields(a) ==
  <<a.export_filename>>
    \o a.custom_keys
    \o [i \in 1..Len(a.column_configs) |-> a.column_configs[i].prefix]
    \o [i \in 1..Len(a.column_configs) |-> a.column_configs[i].postfix]

\* The key events the model draws from state a, by the state b they lead to
WithinBounds(a, b) ==
  (/\ Typed(a.sheet_search, b.sheet_search, SearchTexts)
   /\ Typed(a.row_input, b.row_input, RowTexts)
   /\ \/ a.step # "Export"
      \/ \A i \in 1..Len(ExportFields(b)) :
           Typed(ExportFields(a)[i], ExportFields(b)[i], ExportTexts)
   /\ b.rows_per_page <= Max(a.rows_per_page, MaxRowsPerPage)
   /\ \A i \in Range(b.selected_sheet) : i <= Max(Len(b.sheets), MaxSheetIdx))
    = TRUE

----------------------------------------------------------------------------
\* The state machine.

\* main: open the workbook, App::new
Init ==
  /\ xlsx \in Workbooks
  /\ app = new(xlsx, OriginalFilename)
  /\ exit = "running"

\* One iteration of main's loop that reads a key: handle_key, then ui
\* unless handle_key returned true
Iteration(key, env) ==
  /\ exit = "running"
  /\ xlsx' = xlsx
  /\ LET waited == elapse(app, env.elapsed)
     IN  IF handle_key_returns(waited, key)
         THEN exit' = "quit" /\ app' = app
         ELSE IF handle_key_panics(waited, key, env)
         THEN exit' = "panic" /\ app' = app
         ELSE LET handled == handle_key(waited, key, xlsx, env)
              IN  /\ WithinBounds(app, handled)
                  /\ exit' = IF ui_panics(handled) THEN "panic" ELSE "running"
                  /\ app' = ui(handled)

\* The key events a scenario draws, by the step they arrive in
KeyEvent(Drawn(_)) ==
  \E key \in Drawn(app.step) : \E env \in Envs(app, key) : Iteration(key, env)

MetaKeys == {Key("Char", "b", TRUE), Key("Char", "q", TRUE)}
EnterKey == Key("Enter", "", FALSE)

\* Every key while a sheet and its header row are chosen; after that the
\* keys that move on, and 'a' to show columns
NavigationKeys(s) ==
  CASE s \in {"SheetSelect", "RowTrim", "MergePrompt"} -> Keys
    [] s = "ColSelect" -> MetaKeys \cup {EnterKey, Key("Char", "a", FALSE)}
    [] OTHER -> MetaKeys \cup {EnterKey}

\* An iteration whose poll times out: ui alone, ToastSecs later
Tick ==
  /\ exit = "running"
  /\ IsSome(app.export_toast_time)
  /\ xlsx' = xlsx
  /\ exit' = IF ui_panics(app) THEN "panic" ELSE "running"
  /\ app' = ui(elapse(app, ToastSecs))

Next == KeyEvent(NavigationKeys) \/ Tick

Spec == Init /\ [][Next]_vars

\* The scenario of paging: the one sheet P, its header row 0 or 1, then every
\* key in ColSelect and Preview
InitPages ==
  /\ xlsx = <<SheetP>>
  /\ app = new(xlsx, OriginalFilename)
  /\ exit = "running"

PagingKeys(s) ==
  CASE s = "SheetSelect" -> {EnterKey}
    [] s = "RowTrim" ->
         {EnterKey, Key("Char", "0", FALSE), Key("Char", "1", FALSE),
          Key("Backspace", "", FALSE)}
    [] s \in {"ColSelect", "Preview"} -> Keys
    [] OTHER -> MetaKeys

NextPages == KeyEvent(PagingKeys)

SpecPages == InitPages /\ [][NextPages]_vars

\* The scenario of export: the one sheet E, its header row 0 or 1, the keys
\* that show and filter columns, then every key in Export
InitExport ==
  /\ xlsx = <<SheetE>>
  /\ app = new(xlsx, OriginalFilename)
  /\ exit = "running"

ExportKeys(s) ==
  CASE s = "SheetSelect" -> {EnterKey}
    [] s = "RowTrim" ->
         {EnterKey, Key("Char", "0", FALSE), Key("Char", "1", FALSE)}
    [] s \in {"ColSelect", "Preview"} ->
         MetaKeys \cup {EnterKey, Key("Char", " ", FALSE),
                        Key("Char", "a", FALSE), Key("Down", "", FALSE)}
    [] OTHER -> Keys

NextExport == KeyEvent(ExportKeys) \/ Tick

SpecExport == InitExport /\ [][NextExport]_vars

\* The scenario of merging: the sheets M, N and O, any of them as primary
\* sheet with header row 0, 1 or 2, then every key in MergePrompt and
\* ColSelect
InitMerge ==
  /\ xlsx = <<SheetM, SheetN, SheetO>>
  /\ app = new(xlsx, OriginalFilename)
  /\ exit = "running"

MergeKeys(s) ==
  CASE s = "SheetSelect" ->
         {EnterKey, Key("Up", "", FALSE), Key("Down", "", FALSE)}
    [] s = "RowTrim" ->
         MetaKeys \cup {EnterKey, Key("End", "", FALSE),
                        Key("Backspace", "", FALSE), Key("Char", "0", FALSE),
                        Key("Char", "1", FALSE), Key("Char", "2", FALSE)}
    [] s \in {"MergePrompt", "ColSelect"} -> Keys
    [] OTHER -> MetaKeys

NextMerge == KeyEvent(MergeKeys)

SpecMerge == InitMerge /\ [][NextMerge]_vars

----------------------------------------------------------------------------
\* The properties.

ForwardTransitions ==
  { <<"SheetSelect", "RowTrim">>, <<"RowTrim", "MergePrompt">>,
    <<"RowTrim", "ColSelect">>, <<"MergePrompt", "ColSelect">>,
    <<"ColSelect", "Preview">>, <<"Preview", "Export">> }

\* The sheets other than the selected one that have a row r sharing a
\* trimmed cell with row r of the loaded grid
Candidates(a, r) ==
  {i \in 0..(Len(a.sheets) - 1) :
     /\ Some(i) # a.selected_sheet
     /\ LET range == worksheet_range(xlsx, At(a.sheets, i))
        IN  /\ range.ok
            /\ r < Len(range.rows)
            /\ \E j \in 1..Len(At(a.data, r)) :
                 \E k \in 1..Len(At(range.rows, r)) :
                   Trim(At(a.data, r)[j]) = Trim(At(range.rows, r)[k])}

\* C1: a key event other than back and quit that handle_key returns from
\* either keeps the step or makes one of the six forward transitions, and
\* RowTrim goes straight to ColSelect only when no other sheet is a merge
\* candidate at the chosen header row.
C1_ForwardTransitions ==
  \A key \in Keys : \A env \in Envs(app, key) :
    (~is_back(key) /\ ~is_quit(key) /\ ~handle_key_panics(app, key, env)) =>
      LET after == handle_key(app, key, xlsx, env)
          move == <<app.step, after.step>>
      IN  \/ after.step = app.step
          \/ /\ move \in ForwardTransitions
             /\ move = <<"RowTrim", "ColSelect">> =>
                  Candidates(after, after.first_row) = {}

\* C1 witness: Export reached through SheetSelect, RowTrim, MergePrompt,
\* ColSelect and Preview
C1_Witness ==
  exit = "running" /\ app.step = "Export" /\ app.sheets = <<MergedLabel>>

PreviousStep ==
  [s \in Steps |->
     CASE s = "Export" -> "Preview"
       [] s = "Preview" -> "ColSelect"
       [] s \in {"ColSelect", "MergePrompt"} -> "RowTrim"
       [] OTHER -> "SheetSelect"]

\* C2: handle_key returns from the back key with the step set to the
\* previous step of the table: Export to Preview, Preview to ColSelect,
\* ColSelect and MergePrompt to RowTrim, RowTrim and SheetSelect to
\* SheetSelect.
C2_Back ==
  \A key \in Keys : \A env \in Envs(app, key) :
    is_back(key) =>
      /\ ~handle_key_panics(app, key, env)
      /\ ~handle_key_returns(app, key)
      /\ handle_key(app, key, xlsx, env).step = PreviousStep[app.step]

\* C2 witness: SheetSelect with a grid loaded, which only going back reaches
C2_Witness ==
  exit = "running" /\ app.step = "SheetSelect" /\ app.data # <<>>

\* C3: the quit key makes handle_key return the terminate signal with the
\* application state as it was, and every other key makes it return the
\* continue signal.
C3_QuitOrContinue ==
  \A key \in Keys : \A env \in Envs(app, key) :
    IF is_quit(key)
    THEN handle_key_returns(app, key) /\ handle_key(app, key, xlsx, env) = app
    ELSE ~handle_key_returns(app, key) /\ ~handle_key_panics(app, key, env)

\* C4: once a grid is loaded, columns, column_configs and custom_keys are
\* each as long as the grid's row 0.
C4_ColumnLengths ==
  app.data # <<>> =>
    /\ Len(app.columns) = Len(app.data[1])
    /\ Len(app.column_configs) = Len(app.data[1])
    /\ Len(app.custom_keys) = Len(app.data[1])

\* C5: in Preview the page shown is a page that exists: current_page is
\* below total_pages, or both are 0.
C5_PageInRange ==
  (exit = "running" /\ app.step = "Preview" /\ ~total_pages_panics(app)) =>
    \/ app.current_page < total_pages(app)
    \/ total_pages(app) = 0 /\ app.current_page = 0

\* The rows of the grid at index from or later that is_row_visible keeps
VisibleRowsFrom(a, from) ==
  Cardinality({i \in (from + 1)..Len(a.data) : is_row_visible(a, a.data[i])})

\* pages is the ceiling of n / per
IsCeiling(pages, n, per) ==
  IF n = 0 THEN pages = 0 ELSE (pages - 1) * per < n /\ n <= pages * per

\* C6: total_pages is the ceiling of N / rows_per_page, N the number of
\* visible rows at index first_row or later, the header row among them.
C6_TotalPages ==
  ~total_pages_panics(app) =>
    IsCeiling(total_pages(app), VisibleRowsFrom(app, app.first_row),
              app.rows_per_page)

\* C6 with N counting only the visible rows strictly after first_row: the
\* page count would then be the ceiling of that N / rows_per_page.
C6_TotalPagesAfterHeader ==
  ~total_pages_panics(app) =>
    IsCeiling(total_pages(app), VisibleRowsFrom(app, app.first_row + 1),
              app.rows_per_page)

\* C6 witness: a preview of several pages under a changed page size and a
\* blank-cell filter
C6_Witness ==
  /\ exit = "running" /\ app.step = "Preview"
  /\ app.rows_per_page # 10
  /\ total_pages(app) >= 2
  /\ VisibleRowsFrom(app, app.first_row) < Len(app.data) - app.first_row

\* The row numbers the text of row_input denotes: the text trimmed, an
\* optional '+' dropped, is a decimal numeral
Denoted(text) ==
  LET t == Trim(text)
      numeral == IF t # <<>> /\ Head(t) = "+" THEN Tail(t) ELSE t
  IN  IF numeral # <<>> /\ \A i \in 1..Len(numeral) : IsDigit(numeral[i])
      THEN {DecimalValue(numeral)} ELSE {}

\* C7: Enter in RowTrim with a text that denotes a row number below
\* data.len() sets first_row to it and leaves RowTrim; with any other text
\* it leaves step, first_row, data and merge_info as they were.
C7_RowTrimEnter ==
  app.step = "RowTrim" =>
    \A env \in Envs(app, EnterKey) :
      LET after == handle_key(app, EnterKey, xlsx, env)
          rows == {n \in Denoted(app.row_input.value) : n < Len(app.data)}
      IN  IF rows # {}
          THEN after.first_row \in rows
                 /\ after.step \in {"MergePrompt", "ColSelect"}
          ELSE /\ after.step = app.step
               /\ after.first_row = app.first_row
               /\ after.data = app.data
               /\ after.merge_info = app.merge_info

\* C7 witness: the last row of a three-row grid accepted as header row, a
\* number the two-row sheet rejects
C7_Witness ==
  /\ exit = "running" /\ app.step = "ColSelect"
  /\ app.first_row = 2 /\ Len(app.data) = 3

\* C8: an accepted header row leads to MergePrompt exactly when some other
\* sheet shares a header name at that row, else to ColSelect; and in
\* MergePrompt merge_info lists at least one other sheet, each with at least
\* one shared name.
C8_MergePrompt ==
  /\ app.step = "MergePrompt" =>
       /\ IsSome(app.merge_info)
       /\ Unwrap(app.merge_info) # <<>>
       /\ \A k \in 1..Len(Unwrap(app.merge_info)) :
            LET entry == Unwrap(app.merge_info)[k]
            IN  /\ entry[2] # <<>>
                /\ \E i \in Candidates(app, app.first_row) :
                     At(app.sheets, i) = entry[1]
  /\ app.step = "RowTrim" =>
       \A env \in Envs(app, EnterKey) :
         LET after == handle_key(app, EnterKey, xlsx, env)
         IN  after.step # "RowTrim" =>
               after.step =
                 IF Candidates(after, after.first_row) # {}
                 THEN "MergePrompt" ELSE "ColSelect"

\* C8 witness: the merge prompt shown
C8_Witness == exit = "running" /\ app.step = "MergePrompt"

\* C9: Enter in SheetSelect on a listed sheet that cannot be decoded or has
\* no rows leaves the step SheetSelect; the step becomes RowTrim only with
\* the decoded, non-empty grid loaded.
C9_LoadFailure ==
  (/\ app.step = "SheetSelect"
   /\ IsSome(app.selected_sheet)
   /\ Unwrap(app.selected_sheet) < Len(app.sheets)) =>
    \A env \in Envs(app, EnterKey) :
      LET range == worksheet_range(xlsx, At(app.sheets, Unwrap(app.selected_sheet)))
          after == handle_key(app, EnterKey, xlsx, env)
      IN  /\ ~handle_key_panics(app, EnterKey, env)
          /\ (~range.ok \/ range.rows = <<>>) => after.step = "SheetSelect"
          /\ after.step = "RowTrim" =>
               range.ok /\ range.rows # <<>> /\ after.data = range.rows

\* C9 witness: SheetSelect after the load of a sheet without rows, which
\* emptied the grid an earlier load had filled
C9_Witness ==
  /\ exit = "running" /\ app.step = "SheetSelect"
  /\ app.data = <<>> /\ app.columns # <<>>

\* C10: no key event makes the program panic, neither in handle_key nor in
\* the ui that follows.
C10_NeverCrashes == exit # "panic"

\* C11: a row is visible exactly when every column in state NonEmpty has a
\* non-blank cell in it; Hidden and Original columns impose nothing, so with
\* no NonEmpty column every row is visible.
C11_RowVisible ==
  \A i \in 1..Len(app.data) :
    LET row == app.data[i]
    IN  ~is_row_visible_panics(app, row) =>
          (is_row_visible(app, row) <=>
             \A c \in 1..Len(app.columns) :
               app.columns[c] = "NonEmpty" =>
                 (c <= Len(row) /\ Trim(row[c]) # <<>>))

\* The positions in data of the rows after the header row that
\* is_row_visible keeps
VisibleAfterHeader(a) ==
  {i \in (a.first_row + 2)..Len(a.data) : is_row_visible(a, a.data[i])}

\* C12: before deduplication the exported array holds exactly one record for
\* each visible row of index above first_row, in row order; the header row
\* and the rows before it give no record.
C12_RecordPerRow ==
  ~create_json_records_panics(app) =>
    LET records == create_json_records(app)
        rows == VisibleAfterHeader(app)
    IN  /\ Len(records) = Cardinality(rows)
        /\ \A i \in rows :
             records[Cardinality({j \in rows : j < i}) + 1]
               = json_record(app, app.data[i])

\* C12 witness: an export, from header row 1, of the two rows that a
\* blank-cell filter on both columns leaves of the three after the header
C12_Witness ==
  /\ exit = "running" /\ app.step = "Export" /\ IsSome(app.export_toast)
  /\ app.first_row = 1
  /\ Len(create_json_records(app)) = 2
  /\ Len(app.data) - app.first_row - 1 = 3

\* The positions of the records no earlier record equals
FirstOccurrences(records) ==
  {i \in 1..Len(records) : \A j \in 1..(i - 1) : records[j] # records[i]}

\* C13: with deduplication on, the exported array is the first occurrence of
\* each distinct record, in order of first appearance, and deduplicating it
\* again changes nothing; with deduplication off it is every record, in
\* order.
C13_Deduplication ==
  ~create_json_records_panics(app) =>
    LET records == create_json_records(app)
        kept == export_array(app)
        first == FirstOccurrences(records)
    IN  IF app.deduplicate
        THEN /\ Len(kept) = Cardinality(first)
             /\ \A i \in first :
                  kept[Cardinality({j \in first : j < i}) + 1] = records[i]
             /\ deduplicated(kept) = kept
        ELSE kept = records

\* C13 witness: an export with deduplication on that dropped a repeated
\* record
C13_Witness ==
  /\ exit = "running" /\ app.step = "Export" /\ IsSome(app.export_toast)
  /\ app.deduplicate /\ visible_columns(app) # <<>>
  /\ Len(export_array(app)) < Len(create_json_records(app))

YesKey == Key("Char", "y", FALSE)

\* The orders in which the entries of a sequence can be taken
Orders(seq) ==
  {p \in [1..Len(seq) -> 1..Len(seq)] :
     \A i, j \in 1..Len(seq) : p[i] = p[j] => i = j}

\* C14: the merged header is the primary sheet's header row restricted, in
\* order, to the names in every candidate's shared-name list; intersecting
\* the candidates in any order gives the same names; the merged grid has at
\* least its header row.
C14_MergedHeader ==
  app.step = "MergePrompt" =>
    \A env \in Envs(app, YesKey) :
      LET merged == handle_key(app, YesKey, xlsx, env)
          primary == At(app.data, app.first_row)
          info == Unwrap(app.merge_info)
          shared == {n \in Range(TrimAll(primary)) :
                       \A k \in 1..Len(info) : n \in Range(info[k][2])}
      IN  /\ Len(merged.data) >= 1
          /\ merged.data[1] = SelectSeq(primary, LAMBDA s : Trim(s) \in shared)
          /\ \A p \in Orders(info) :
               Range(TrimAll(merge_new_header(
                       primary, [k \in 1..Len(info) |-> info[p[k]]])))
                 = shared

\* C14 witness: M merged with its two candidates N and O, whose shared names
\* differ: only "a" is left of M's three header names
C14_Witness ==
  /\ exit = "running" /\ app.step = "ColSelect"
  /\ app.sheets = <<MergedLabel>>
  /\ app.data[1] = << <<"a">> >>
  /\ Len(app.columns) = 3

\* The rows a sheet has after row first
RowsAfter(name, first) ==
  LET range == worksheet_range(xlsx, name)
  IN  IF range.ok THEN Skip(range.rows, first + 1) ELSE <<>>

\* merged is the row source under the merged header: under each header name
\* that names a column of the sheet, a cell of the row from a column so named
Projects(merged, header, source, sheet_header) ==
  /\ Len(merged) = Len(header)
  /\ \A c \in 1..Len(header) :
       LET named == {j \in 1..Len(sheet_header) :
                       Trim(sheet_header[j]) = Trim(header[c])}
       IN  IF named = {} THEN merged[c] = <<>>
           ELSE \E j \in named :
                  merged[c] = IF j <= Len(source) THEN source[j] ELSE <<>>

\* C15: the merged grid has, under its header row, as many rows as the
\* primary sheet and the candidates together have after their row first_row,
\* sheet by sheet in the order primary, candidates, and row by row within a
\* sheet.
C15_MergedRows ==
  app.step = "MergePrompt" =>
    \A env \in Envs(app, YesKey) :
      LET merged == handle_key(app, YesKey, xlsx, env).data
          info == Unwrap(app.merge_info)
          names == <<At(app.sheets, Unwrap(app.selected_sheet))>>
                     \o [k \in 1..Len(info) |-> info[k][1]]
          blocks == [k \in 1..Len(names) |-> RowsAfter(names[k], app.first_row)]
          offset(k) == 1 + Len(Flatten(SubSeq(blocks, 1, k - 1)))
      IN  /\ Len(merged) - 1 = Len(Flatten(blocks))
          /\ \A k \in 1..Len(names) : \A r \in 1..Len(blocks[k]) :
               Projects(merged[offset(k) + r], merged[1], blocks[k][r],
                        At(worksheet_range(xlsx, names[k]).rows, app.first_row))

\* C15 witness: M merged at header row 1 with N and O: one row of M, two of
\* N, none of O, under the header "q"
C15_Witness ==
  /\ exit = "running" /\ app.step = "ColSelect"
  /\ app.sheets = <<MergedLabel>>
  /\ app.data = << << <<"q">> >>, << <<"2">> >>, << <<"4">> >>, << <<"6">> >> >>

\* C16: Enter in Export keeps the step; it sets the toast and its timestamp
\* exactly when the file is created and written, leaves both as they were
\* when the write fails, and neither panics nor ends the loop.
C16_ExportEnter ==
  (exit = "running" /\ app.step = "Export") =>
    \A env \in Envs(app, EnterKey) :
      /\ ~handle_key_panics(app, EnterKey, env)
      /\ ~handle_key_returns(app, EnterKey)
      /\ LET after == handle_key(app, EnterKey, xlsx, env)
         IN  /\ after.step = "Export"
             /\ ~ui_panics(after)
             /\ IF env.file_created /\ env.file_written
                THEN /\ IsSome(after.export_toast)
                     /\ after.export_toast_time = Some(0)
                ELSE /\ after.export_toast = app.export_toast
                     /\ after.export_toast_time = app.export_toast_time

\* C16 witness: Export just after a successful Enter, the toast fresh
C16_Witness ==
  /\ exit = "running" /\ app.step = "Export"
  /\ IsSome(app.export_toast) /\ app.export_toast_time = Some(0)

\* C17: in Export the focus row ranges over the filename row and one row per
\* visible column: export_focus_row is at most visible_columns().len(), so
\* every focus row above 0 designates a visible column.
C17_FocusRange ==
  (exit = "running" /\ app.step = "Export") =>
    app.export_focus_row <= Len(visible_columns(app))

\* The keys handle_merge_prompt takes for yes
YesKeys == {key \in Keys : IsChar(key, "y") \/ IsChar(key, "Y")}

\* C18: y or Y in MergePrompt leaves data replaced by the merged table (a
\* header taken from the primary header row, every row as wide as it),
\* sheets the single label "[Merged]", selected_sheet on that entry,
\* first_row 0, merge_info cleared and the step ColSelect.
C18_AfterMerge ==
  app.step = "MergePrompt" =>
    \A key \in YesKeys : \A env \in Envs(app, key) :
      /\ ~handle_key_panics(app, key, env)
      /\ LET after == handle_key(app, key, xlsx, env)
         IN  /\ after.sheets = <<MergedLabel>>
             /\ after.selected_sheet = Some(0)
             /\ after.first_row = 0
             /\ after.merge_info = None
             /\ after.step = "ColSelect"
             /\ after.data # <<>>
             /\ Range(after.data[1]) \subseteq Range(At(app.data, app.first_row))
             /\ \A i \in 1..Len(after.data) :
                  Len(after.data[i]) = Len(after.data[1])

\* C18 witness: ColSelect after a merge made from header row 1
C18_Witness ==
  /\ exit = "running" /\ app.step = "ColSelect"
  /\ app.sheets = <<MergedLabel>> /\ app.selected_sheet = Some(0)
  /\ app.row_input.value = <<"1">> /\ app.first_row = 0
  /\ app.merge_info = None

NoKeys == {key \in Keys : IsChar(key, "n") \/ IsChar(key, "N")}

\* C19: n or N in MergePrompt clears merge_info and moves to ColSelect with
\* data, sheets, selected_sheet and first_row as they were; a key that is
\* none of y, Y, n, N, back and quit changes nothing.
C19_MergePromptKeys ==
  app.step = "MergePrompt" =>
    \A key \in Keys : \A env \in Envs(app, key) :
      LET after == handle_key(app, key, xlsx, env)
      IN  IF key \in NoKeys
          THEN /\ after.merge_info = None
               /\ after.step = "ColSelect"
               /\ after.data = app.data
               /\ after.sheets = app.sheets
               /\ after.selected_sheet = app.selected_sheet
               /\ after.first_row = app.first_row
          ELSE (key \notin YesKeys /\ ~is_back(key) /\ ~is_quit(key)) =>
                 (~handle_key_panics(app, key, env) /\ after = app)

\* C19 witness: ColSelect on an unmerged sheet that has merge candidates at
\* its header row, the prompt declined
C19_Witness ==
  /\ exit = "running" /\ app.step = "ColSelect"
  /\ app.merge_info = None
  /\ Len(app.sheets) = 3 /\ Candidates(app, app.first_row) # {}

\* C20: in ColSelect 'a' makes every column NonEmpty when all are Hidden and
\* Hidden otherwise; space changes the focused column alone, Hidden to
\* NonEmpty and any other state to Hidden; neither changes step, data or
\* selected_column.
C20_ColumnToggles ==
  app.step = "ColSelect" =>
    LET all_key == Key("Char", "a", FALSE)
        space_key == Key("Char", " ", FALSE)
        all_hidden == \A i \in 1..Len(app.columns) : app.columns[i] = "Hidden"
        Framed(after) ==
          /\ after.step = app.step
          /\ after.data = app.data
          /\ after.selected_column = app.selected_column
          /\ Len(after.columns) = Len(app.columns)
    IN  /\ \A env \in Envs(app, all_key) :
             LET after == handle_key(app, all_key, xlsx, env)
             IN  /\ Framed(after)
                 /\ \A i \in 1..Len(app.columns) :
                      after.columns[i] =
                        IF all_hidden THEN "NonEmpty" ELSE "Hidden"
        /\ \A env \in Envs(app, space_key) :
             LET after == handle_key(app, space_key, xlsx, env)
             IN  /\ Framed(after)
                 /\ \A i \in 1..Len(app.columns) :
                      after.columns[i] =
                        IF i # app.selected_column + 1 THEN app.columns[i]
                        ELSE IF app.columns[i] = "Hidden"
                             THEN "NonEmpty" ELSE "Hidden"

\* C20 witness: ColSelect with the cursor on column 1, shown by space, and
\* column 0 hidden
C20_Witness ==
  /\ exit = "running" /\ app.step = "ColSelect"
  /\ app.selected_column = 1
  /\ app.columns = <<"Hidden", "NonEmpty">>

\* C21: no key event in Preview changes which columns are visible; space
\* changes at most the focused visible column, between Original and
\* NonEmpty, and never to Hidden.
C21_PreviewKeepsVisible ==
  app.step = "Preview" =>
    \A key \in Keys : \A env \in Envs(app, key) :
      ~handle_key_panics(app, key, env) =>
        LET after == handle_key(app, key, xlsx, env)
            visible == visible_columns(app)
        IN  /\ visible_columns(after) = visible
            /\ Len(after.columns) = Len(app.columns)
            /\ \A i \in 1..Len(app.columns) :
                 after.columns[i] # app.columns[i] =>
                   /\ IsChar(key, " ")
                   /\ app.selected_column < Len(visible)
                   /\ i = At(visible, app.selected_column) + 1
                   /\ {app.columns[i], after.columns[i]} = {"Original", "NonEmpty"}

\* C21 witness: Preview with column 1 turned to Original by space, column 0
\* still filtering blanks
C21_Witness ==
  /\ exit = "running" /\ app.step = "Preview"
  /\ app.columns = <<"NonEmpty", "Original">>

\* C22: in MergePrompt, ColSelect, Preview and Export the header row exists:
\* first_row is below data.len().
C22_HeaderRowExists ==
  app.step \in {"MergePrompt", "ColSelect", "Preview", "Export"} =>
    app.first_row < Len(app.data)

\* C22 witness: Export with the last row of the grid as header row
C22_Witness ==
  /\ exit = "running" /\ app.step = "Export"
  /\ app.first_row > 0 /\ app.first_row = Len(app.data) - 1

\* C23: the column cursor designates an entry of the list the step
\* navigates: selected_column is below columns.len() in ColSelect, and below
\* visible_columns().len() in Preview when a column is visible.
C23_CursorInRange ==
  /\ app.step = "ColSelect" => app.selected_column < Len(app.columns)
  /\ (app.step = "Preview" /\ visible_columns(app) # <<>>) =>
       app.selected_column < Len(visible_columns(app))

\* C24: a back key event changes nothing but the step: data, first_row,
\* columns, selected_sheet, matching_sheets, the search and row input texts
\* and cursors, the page and the export settings are as before.
C24_BackFrame ==
  exit = "running" =>
    \A key \in Keys : \A env \in Envs(app, key) :
      is_back(key) =>
        /\ ~handle_key_panics(app, key, env)
        /\ LET after == handle_key(app, key, xlsx, env)
           IN  after = [app EXCEPT !.step = after.step]

\* The workbooks here hold no sheet of the sentinel's name
AfterMergeAtSheetSelect ==
  /\ exit = "running"
  /\ app.step = "SheetSelect"
  /\ app.sheets = <<MergedLabel>>

\* C25: once the user is back at SheetSelect after a merge (the sheet list is
\* the single sentinel "[Merged]", a name the workbook does not hold), no key
\* leaves SheetSelect: Enter loads nothing, the sheet list and the data stay
\* as they are, so Export is out of reach from then on.
C25_MergedSheetSelectIsFinal ==
  AfterMergeAtSheetSelect =>
    /\ ~load_sheet_ok(app, xlsx)
    /\ \A key \in Keys : \A env \in Envs(app, key) :
         /\ ~handle_key_panics(app, key, env)
         /\ LET after == handle_key(app, key, xlsx, env)
            IN  /\ after.step = "SheetSelect"
                /\ after.sheets = app.sheets
                /\ after.data = app.data

C25_Witness ==
  /\ AfterMergeAtSheetSelect
  /\ app.data # <<>>
  /\ app.selected_sheet = Some(0)
  /\ worksheet_range(xlsx, MergedLabel).ok = FALSE

\* C26: every exported record has exactly one field per visible column: its
\* field count is visible_columns().len(), whatever the custom keys and the
\* header names are, and after a merge too.
C26_FieldPerVisibleColumn ==
  (exit = "running" /\ app.step \in {"ColSelect", "Preview", "Export"}
     /\ ~create_json_records_panics(app)) =>
    \A record \in Range(create_json_records(app)) :
      Cardinality(DOMAIN record) = Len(visible_columns(app))

====
